---- MODULE Spec2Model ----
(***************************************************************************)
(* A model of alembic/revision.py: the RevisionMap (a lazily built index   *)
(* over Revision objects), its incremental insertion, its identifier       *)
(* resolution and its range traversal.                                     *)
(*                                                                         *)
(* Revision objects live in a heap `objs` (a sequence; the address of an   *)
(* object is its index, 0 is Python's None), because the code keeps        *)
(* several references to one object (an id key and the branch label keys   *)
(* of _revision_map) and compares objects by identity.                     *)
(***************************************************************************)
EXTENDS Integers, Sequences, FiniteSets, TLC

VARIABLES
    generator,  \* the revisions self._generator() yields: constructor arguments
    built,      \* whether the memoized _revision_map has been computed
    objs,       \* the heap of Revision objects
    map_,       \* _revision_map: key -> address (0 for None)
    heads,      \* self.heads, a tuple of ids
    bases,      \* self.bases, a tuple of ids
    call,       \* the last operation called and its arguments
    err,        \* the exception the last operation raised, or "none"
    err_args,   \* the arguments the exception was constructed with
    warned,     \* the warnings the last operation emitted
    result      \* what the last query returned (addresses, in yield order)

vars == <<generator, built, objs, map_, heads, bases, call, err, err_args, warned, result>>

(***************************************************************************)
(* Bounds of the model.                                                    *)
(***************************************************************************)
MaxGen == 3        \* revisions the generator yields in the lifecycle model
MaxAdds == 2       \* add_revision calls after the build
MaxNodes == 4      \* revisions of a well-formed DAG in the traversal model
MaxChain == 5      \* revisions of a linear chain
MaxLabelled == 4   \* revisions of a DAG that carries branch labels
MaxKeyed == 3      \* revisions of a map queried by prefix
MaxSeed == 3       \* revisions of a map that one more revision is added to

(***************************************************************************)
(* Helpers on sequences and sets.                                          *)
(***************************************************************************)
Range(s) == {s[i] : i \in DOMAIN s}

SeqWithout(s, drop) == SelectSeq(s, LAMBDA x : x \notin drop)

Min(a, b) == IF a < b THEN a ELSE b

Max(a, b) == IF a > b THEN a ELSE b

Abs(n) == IF n < 0 THEN -n ELSE n

\* The two sentinel keys of _revision_map, None and (), both mapped to None.
NoneKey == "None"

EmptyTupleKey == "()"

Sentinels == {NoneKey, EmptyTupleKey}

(***************************************************************************)
(* class Revision                                                          *)
(***************************************************************************)
\* None for no parent, the scalar for one, the tuple for several.
tuple_rev_as_scalar(rev) ==
    IF Len(rev) = 0 THEN [kind |-> "None", val |-> <<>>]
    ELSE IF Len(rev) = 1 THEN [kind |-> "scalar", val |-> <<rev[1]>>]
    ELSE [kind |-> "tuple", val |-> rev]

\* Revision.__init__: nextrev starts as the class attribute frozenset().
Revision(revision, down_revision, branch_labels) ==
    [revision |-> revision,
     down_revision |-> tuple_rev_as_scalar(down_revision),
     orig_branch_labels |-> branch_labels,
     branch_labels |-> Range(branch_labels),
     nextrev |-> {}]

\* util.to_tuple(self.down_revision, default=())
_down_revision_tuple(rev) == rev.down_revision.val

add_nextrev(rev, id) == [rev EXCEPT !.nextrev = @ \cup {id}]

is_head(rev) == rev.nextrev = {}

is_base(rev) == rev.down_revision.kind = "None"

is_branch_point(rev) == Cardinality(rev.nextrev) > 1

is_merge_point(rev) == Len(_down_revision_tuple(rev)) > 1

(***************************************************************************)
(* Closures: _iterate_related_revisions.  The generator yields a node once *)
(* per path to it; every caller but _add_branches takes the set, and       *)
(* _add_branches also uses the last node yielded.                          *)
(***************************************************************************)
\* fn(rev): the ids one step away, lambda rev: rev.nextrev or
\* lambda rev: rev._down_revision_tuple.
StepIds(os, a, dir) ==
    IF dir = "nextrev" THEN os[a].nextrev ELSE Range(_down_revision_tuple(os[a]))

RECURSIVE RelatedFrom(_, _, _, _, _)
\* The addresses reached from `todo`, and whether a map_[rev_id] lookup
\* raised KeyError on the way.
RelatedFrom(os, mp, dir, todo, seen) ==
    IF todo = {} THEN [nodes |-> seen, err |-> "none"]
    ELSE LET ids == UNION {StepIds(os, a, dir) : a \in todo}
         IN IF \E i \in ids : i \notin DOMAIN mp
            THEN [nodes |-> seen \cup todo, err |-> "KeyError"]
            ELSE LET nxt == {mp[i] : i \in ids}
                 IN RelatedFrom(os, mp, dir, nxt \ (seen \cup todo), seen \cup todo)

\* _iterate_related_revisions(fn, targets, map_, check), as a set.  With
\* check, a target whose closure holds another target raises RevisionError;
\* fn(None) raises AttributeError.
_iterate_related_revisions(os, mp, dir, targets, check) ==
    LET per == [t \in targets \ {0} |-> RelatedFrom(os, mp, dir, {t}, {})]
    IN IF 0 \in targets THEN [nodes |-> {}, err |-> "AttributeError"]
       ELSE IF \E t \in targets : per[t].err # "none"
       THEN [nodes |-> {}, err |-> "KeyError"]
       ELSE IF check /\ \E t \in targets : (per[t].nodes \cap targets) \ {t} # {}
       THEN [nodes |-> {}, err |-> "RevisionError"]
       ELSE [nodes |-> UNION {per[t].nodes : t \in targets}, err |-> "none"]

_get_descendant_nodes(os, mp, targets, check) ==
    _iterate_related_revisions(os, mp, "nextrev", targets, check)

_get_ancestor_nodes(os, mp, targets, check) ==
    _iterate_related_revisions(os, mp, "down", targets, check)

\* The nodes the descendant walk from `a` can yield last: the stack walk
\* ends on the path of first-iterated children, and the iteration order of
\* a frozenset of strings is not fixed, so any head above `a` can be last.
LastNodes(os, mp, a) ==
    {n \in RelatedFrom(os, mp, "nextrev", {a}, {}).nodes : os[n].nextrev = {}}

(***************************************************************************)
(* RevisionMap._add_branches                                               *)
(***************************************************************************)
MapSet(mp, k, v) == [x \in DOMAIN mp \cup {k} |-> IF x = k THEN v ELSE mp[x]]

RECURSIVE RegisterLabels(_, _, _, _)
\* for branch_label in revision._orig_branch_labels: a label that is already
\* a key raises RevisionError, the labels before it stay registered.
RegisterLabels(mp, labels, i, r) ==
    IF i > Len(labels) THEN [map_ |-> mp, err |-> "none"]
    ELSE IF labels[i] \in DOMAIN mp THEN [map_ |-> mp, err |-> "RevisionError"]
    ELSE RegisterLabels(MapSet(mp, labels[i], r), labels, i + 1, r)

\* The walk, were it to stop at merge points only.
WalkContinuesThroughForks(rev) == ~is_merge_point(rev)

\* Whether the backward walk of _add_branches goes through `rev`.
WalkContinues(rev) == ~is_branch_point(rev) /\ ~is_merge_point(rev)

RECURSIVE WalkBack(_, _, _, _)
\* while parent and not parent.is_branch_point and not parent.is_merge_point
WalkBack(os, mp, parent, labels) ==
    IF parent = 0 \/ ~WalkContinues(os[parent])
    THEN [objs |-> os, err |-> "none"]
    ELSE LET os1 == [os EXCEPT ![parent].branch_labels = @ \cup labels]
         IN IF os[parent].down_revision.kind = "None"
            THEN [objs |-> os1, err |-> "none"]
            ELSE LET d == os[parent].down_revision.val[1]
                 IN IF d \notin DOMAIN mp
                    THEN [objs |-> os1, err |-> "KeyError"]
                    ELSE WalkBack(os1, mp, mp[d], labels)

\* The nodes that receive the labels in the forward walk.
LabelTargets(os, mp, r) == _get_descendant_nodes(os, mp, {r}, FALSE).nodes

\* _add_branches(revision, map_), `last` being the node the descendant walk
\* yielded last.
_add_branches(os, mp, r, last) ==
    IF os[r].branch_labels = {} THEN [objs |-> os, map_ |-> mp, err |-> "none"]
    ELSE LET reg == RegisterLabels(mp, os[r].orig_branch_labels, 1, r)
         IN IF reg.err # "none" THEN [objs |-> os, map_ |-> reg.map_, err |-> reg.err]
            ELSE LET labels == os[r].branch_labels
                     desc == LabelTargets(os, reg.map_, r)
                     os1 == [a \in DOMAIN os |->
                                IF a \in desc
                                THEN [os[a] EXCEPT !.branch_labels = @ \cup labels]
                                ELSE os[a]]
                     walk == WalkBack(os1, reg.map_, last, labels)
                 IN [objs |-> walk.objs, map_ |-> reg.map_, err |-> walk.err]

(***************************************************************************)
(* RevisionMap._revision_map: the build                                    *)
(***************************************************************************)
RECURSIVE LoadLoop(_, _, _)
\* for revision in self._generator(): ...
LoadLoop(gen, i, st) ==
    IF i > Len(gen) THEN st
    ELSE LET g == gen[i]
             rev == Revision(g.revision, g.down_revision, g.branch_labels)
         IN LoadLoop(gen, i + 1,
                [objs |-> Append(st.objs, rev),
                 map_ |-> MapSet(st.map_, g.revision, i),
                 heads |-> IF g.revision \in Range(st.heads) THEN st.heads
                           ELSE Append(st.heads, g.revision),
                 bases |-> IF is_base(rev) THEN Append(st.bases, g.revision)
                           ELSE st.bases,
                 has_branch_labels |-> IF rev.branch_labels # {}
                                       THEN st.has_branch_labels \cup {i}
                                       ELSE st.has_branch_labels,
                 warned |-> IF g.revision \in DOMAIN st.map_
                            THEN st.warned \cup {"present more than once"}
                            ELSE st.warned,
                 err |-> st.err])

\* The objects map_.values() holds.
Mapped(mp) == {mp[k] : k \in DOMAIN mp} \ {0}

\* The edges (child address, parent id) the linking loop goes through.
DownEdges(os, mp) ==
    UNION {{<<a, d>> : d \in Range(_down_revision_tuple(os[a]))} : a \in Mapped(mp)}

\* for rev in map_.values(): for downrev in rev._down_revision_tuple:
\*     map_[downrev].add_nextrev(rev.revision); heads.discard(downrev)
\* A downrev that is no key warns, and map_[downrev] then raises KeyError.
LinkLoop(st) ==
    LET edges == DownEdges(st.objs, st.map_)
    IN IF \E e \in edges : e[2] \notin DOMAIN st.map_
       THEN [st EXCEPT !.err = "KeyError", !.warned = @ \cup {"is not present"}]
       ELSE [st EXCEPT
               !.objs = [a \in DOMAIN st.objs |->
                           [st.objs[a] EXCEPT !.nextrev =
                               {st.objs[e[1]].revision : e \in {x \in edges : st.map_[x[2]] = a}}]],
               !.heads = SeqWithout(st.heads, {e[2] : e \in edges})]

RECURSIVE LabelOutcomes(_, _, _)
\* for revision in has_branch_labels: self._add_branches(revision, map_).
\* has_branch_labels is a set of objects, visited in any order.
LabelOutcomes(os, mp, remaining) ==
    IF remaining = {} THEN {[objs |-> os, map_ |-> mp, err |-> "none"]}
    ELSE UNION {UNION {
            LET r == _add_branches(os, mp, a, last)
            IN IF r.err # "none" THEN {r}
               ELSE LabelOutcomes(r.objs, r.map_, remaining \ {a})
            : last \in LastNodes(os, mp, a)} : a \in remaining}

\* What a failed build leaves: nothing is memoized; self.bases was assigned
\* in the first loop and self.heads only once the linking loop was through.
FailedBuild(bs, hs, e, w) ==
    [built |-> FALSE, objs |-> <<>>, map_ |-> <<>>, heads |-> hs, bases |-> bs,
     err |-> e, warned |-> w]

\* The states the build of `gen` can end in.
BuildOutcomes(gen) ==
    LET st0 == [objs |-> <<>>, map_ |-> <<>>, heads |-> <<>>, bases |-> <<>>,
                has_branch_labels |-> {}, warned |-> {}, err |-> "none"]
        st1 == LoadLoop(gen, 1, st0)
        st2 == LinkLoop(st1)
        mp2 == MapSet(MapSet(st2.map_, NoneKey, 0), EmptyTupleKey, 0)
    IN IF st2.err # "none"
       THEN {FailedBuild(st1.bases, <<>>, st2.err, st2.warned)}
       ELSE {IF o.err # "none"
             THEN FailedBuild(st1.bases, st2.heads, o.err, st2.warned)
             ELSE [built |-> TRUE, objs |-> o.objs, map_ |-> o.map_,
                   heads |-> st2.heads, bases |-> st1.bases,
                   err |-> "none", warned |-> st2.warned]
             : o \in LabelOutcomes(st2.objs, mp2, st2.has_branch_labels)}

(***************************************************************************)
(* RevisionMap.add_revision                                                *)
(***************************************************************************)
RECURSIVE LinkDown(_, _, _, _, _)
\* for downrev in revision._down_revision_tuple:
\*     map_[downrev].add_nextrev(revision.revision)
\* A downrev that is no key warns, and map_[downrev] then raises KeyError;
\* the parents before it stay linked.
LinkDown(os, mp, downs, i, id) ==
    IF i > Len(downs) THEN [objs |-> os, err |-> "none"]
    ELSE IF downs[i] \notin DOMAIN mp THEN [objs |-> os, err |-> "KeyError"]
    ELSE LinkDown([os EXCEPT ![mp[downs[i]]] = add_nextrev(@, id)], mp, downs, i + 1, id)

\* heads without the new revision's parents and its own id, then its id.
HeadsAfterAdd(hs, rev) ==
    Append(SeqWithout(hs, Range(_down_revision_tuple(rev)) \cup {rev.revision}),
           rev.revision)

\* The object add_revision stores under the revision's id.
StoredRevision(g) == Revision(g.revision, g.down_revision, g.branch_labels)

\* add_revision(revision, _replace) on the built map st.
add_revision(st, g, _replace) ==
    LET id == g.revision
        present == id \in DOMAIN st.map_
        w0 == IF ~_replace /\ present THEN {"present more than once"} ELSE {}
    IN IF _replace /\ ~present
       THEN [st EXCEPT !.err = "Exception", !.warned = {}]
       ELSE
       LET a == Len(st.objs) + 1
           os1 == Append(st.objs, StoredRevision(g))
           mp1 == MapSet(st.map_, id, a)
           br == _add_branches(os1, mp1, a, a)
           bases1 == IF is_base(os1[a]) THEN Append(st.bases, id) ELSE st.bases
           link == LinkDown(br.objs, br.map_, _down_revision_tuple(os1[a]), 1, id)
       IN IF br.err # "none"
          THEN [st EXCEPT !.objs = br.objs, !.map_ = br.map_, !.err = br.err,
                          !.warned = w0]
          ELSE IF link.err # "none"
          THEN [st EXCEPT !.objs = link.objs, !.map_ = br.map_, !.bases = bases1,
                          !.err = link.err, !.warned = w0 \cup {"is not present"}]
          ELSE [st EXCEPT !.objs = link.objs, !.map_ = br.map_, !.bases = bases1,
                          !.heads = IF is_head(link.objs[a])
                                    THEN HeadsAfterAdd(st.heads, link.objs[a])
                                    ELSE st.heads,
                          !.err = "none", !.warned = w0]

(***************************************************************************)
(* Identifier resolution.  The identifiers drawn hold no "@", so the       *)
(* branch_label of _resolve_revision_number is always None and the         *)
(* check_branch paths of _revision_for_ident are not taken.                *)
(***************************************************************************)
\* str.startswith
StartsWith(x, p) == Len(p) <= Len(x) /\ SubSeq(x, 1, Len(p)) = p

\* get_current_head(): MultipleHeads for several heads, None for none.
get_current_head(st) ==
    IF Len(st.heads) > 1 THEN [err |-> "MultipleHeads", id |-> NoneKey]
    ELSE IF Len(st.heads) = 1 THEN [err |-> "none", id |-> st.heads[1]]
    ELSE [err |-> "none", id |-> NoneKey]

\* _resolve_revision_number(id_): the tuple of ids the identifier stands for.
_resolve_revision_number(st, id_) ==
    IF id_ = "heads" THEN [err |-> "none", ids |-> st.heads]
    ELSE IF id_ = "head"
    THEN [err |-> get_current_head(st).err, ids |-> <<get_current_head(st).id>>]
    ELSE IF id_ = "base" \/ id_ = NoneKey THEN [err |-> "none", ids |-> <<>>]
    ELSE [err |-> "none", ids |-> <<id_>>]

\* The keys the partial lookup collects:
\* [x for x in self._revision_map if x and x.startswith(resolved_id)]
PartialMatches(st, resolved_id) ==
    {x \in DOMAIN st.map_ : x \notin Sentinels /\ StartsWith(x, resolved_id)}

\* _revision_for_ident(resolved_id): the object under the key, or under the
\* only key that starts with it.
_revision_for_ident(st, resolved_id) ==
    IF resolved_id \in DOMAIN st.map_
    THEN [err |-> "none", rev |-> st.map_[resolved_id]]
    ELSE LET revs == PartialMatches(st, resolved_id)
         IN IF revs = {} THEN [err |-> "ResolutionError", rev |-> 0]
            ELSE IF Cardinality(revs) > 1 THEN [err |-> "ResolutionError", rev |-> 0]
            ELSE [err |-> "none", rev |-> st.map_[CHOOSE x \in revs : TRUE]]

RECURSIVE RevisionsForIdents(_, _, _)
\* tuple(self._revision_for_ident(rev_id) for rev_id in resolved_id)
RevisionsForIdents(st, ids, i) ==
    IF i > Len(ids) THEN [err |-> "none", revs |-> <<>>]
    ELSE LET Cons(one, rest) ==
                 IF one.err # "none" THEN [err |-> one.err, revs |-> <<>>]
                 ELSE IF rest.err # "none" THEN rest
                 ELSE [err |-> "none", revs |-> <<one.rev>> \o rest.revs]
         IN Cons(_revision_for_ident(st, ids[i]), RevisionsForIdents(st, ids, i + 1))

\* get_revisions(id_) for one identifier.
get_revisions(st, id_) ==
    LET Resolved(r) ==
            IF r.err # "none" THEN [err |-> r.err, revs |-> <<>>]
            ELSE RevisionsForIdents(st, r.ids, 1)
    IN Resolved(_resolve_revision_number(st, id_))

RECURSIVE get_revisions_of(_, _, _)
\* get_revisions(id_) for a tuple of identifiers: the results, concatenated.
get_revisions_of(st, ids, i) ==
    IF i > Len(ids) THEN [err |-> "none", revs |-> <<>>]
    ELSE LET Concat(one, rest) ==
                 IF one.err # "none" THEN one
                 ELSE IF rest.err # "none" THEN rest
                 ELSE [err |-> "none", revs |-> one.revs \o rest.revs]
         IN Concat(get_revisions(st, ids[i]), get_revisions_of(st, ids, i + 1))

\* get_revision(id_)
get_revision(st, id_) ==
    LET r == _resolve_revision_number(st, id_)
    IN IF r.err # "none" THEN [err |-> r.err, rev |-> 0]
       ELSE IF Len(r.ids) > 1 THEN [err |-> "MultipleHeads", rev |-> 0]
       ELSE IF Len(r.ids) = 1 THEN _revision_for_ident(st, r.ids[1])
       ELSE _revision_for_ident(st, EmptyTupleKey)

(***************************************************************************)
(* RevisionMap._iterate_revisions                                          *)
(***************************************************************************)
Reverse(s) == [i \in 1..Len(s) |-> s[Len(s) + 1 - i]]

MapSeq(s, f) == [i \in 1..Len(s) |-> f[s[i]]]

IdsOf(os, revs) == {os[a].revision : a \in revs}

\* deque.extendleft(xs): each element goes to the front in turn.
ExtendLeft(todo, xs) == Reverse(xs) \o todo

\* The candidates none of whose parents is a candidate (lines 489-498).
BaseLowers(st, candidate_lowers) ==
    {rev \in candidate_lowers :
        \A downrev \in Range(_down_revision_tuple(st.objs[rev])) :
            st.map_[downrev] \notin candidate_lowers}

\* The lower boundary (lines 480-506).  No lower drawn ends in "@base", so
\* limit_to_lower_branch is False.
Lowers(st, upper_ancestors, requested_lowers, implicit_base) ==
    LET req == Range(requested_lowers)
        Around(lower_ancestors, lower_descendants) ==
            IF lower_ancestors.err # "none" THEN [err |-> lower_ancestors.err, revs |-> {}]
            ELSE IF lower_descendants.err # "none"
            THEN [err |-> lower_descendants.err, revs |-> {}]
            ELSE [err |-> "none",
                  revs |-> BaseLowers(st, (upper_ancestors \ lower_ancestors.nodes)
                                              \ lower_descendants.nodes) \cup req]
        WithBases(bs) == [err |-> bs.err, revs |-> Range(bs.revs) \cup req]
    IN IF implicit_base /\ requested_lowers # <<>>
       THEN Around(_get_ancestor_nodes(st.objs, st.map_, req, FALSE),
                   _get_descendant_nodes(st.objs, st.map_, req, FALSE))
       ELSE IF implicit_base \/ requested_lowers = <<>>
       THEN WithBases(get_revisions_of(st, st.bases, 1))
       ELSE [err |-> "none", revs |-> req]

\* The fork barriers of the range (lines 517-522).
BranchEndpoints(st, total_space) ==
    {st.objs[st.map_[r]].revision : r \in
        {r \in total_space :
            /\ is_branch_point(st.objs[st.map_[r]])
            /\ Cardinality(total_space \cap st.objs[st.map_[r]].nextrev) > 1}}

\* The front parents, were the barrier test inverted.
FrontParentsOfBarriers(rev, branch_endpoints, stop, total_space) ==
    SelectSeq(Reverse(_down_revision_tuple(rev)),
              LAMBDA downrev : /\ downrev \in branch_endpoints
                               /\ downrev \notin stop.ids
                               /\ downrev \in total_space)

\* The parents of rev that go to the front of todo (lines 536-540).
FrontParents(rev, branch_endpoints, stop, total_space) ==
    SelectSeq(Reverse(_down_revision_tuple(rev)),
              LAMBDA downrev : /\ downrev \notin branch_endpoints
                               /\ downrev \notin stop.ids
                               /\ downrev \in total_space)

\* The back parents, were the stop set not consulted.
BackParentsIgnoringStop(rev, branch_endpoints, stop, total_space) ==
    SelectSeq(_down_revision_tuple(rev),
              LAMBDA downrev : /\ downrev \in branch_endpoints
                               /\ downrev \in total_space)

\* The parents of rev that go to the back of todo (lines 544-549).
BackParents(rev, branch_endpoints, stop, total_space) ==
    SelectSeq(_down_revision_tuple(rev),
              LAMBDA downrev : /\ downrev \in branch_endpoints
                               /\ downrev \notin stop.ids
                               /\ downrev \in total_space)

\* The test of the loop, were the lowers skipped whatever inclusive is.
YieldsNoLower(rev, requested_lowers, inclusive) == rev \notin Range(requested_lowers)

\* Whether the loop yields rev (lines 551-553).
Yields(rev, requested_lowers, inclusive) ==
    ~(~inclusive /\ rev \in Range(requested_lowers))

RECURSIVE TraverseLoop(_, _, _, _, _, _, _, _)
\* while todo: ... (lines 529-553).  stop holds Revision objects (the
\* lowers) and id strings (the barriers seen); the loop tests ids against
\* it, so only its strings ever match.
TraverseLoop(st, total_space, branch_endpoints, requested_lowers, inclusive, todo, stop, out) ==
    IF todo = <<>> THEN out
    ELSE LET stop1 == [stop EXCEPT !.ids = @ \cup
                          {st.objs[r].revision : r \in
                              {r \in Range(todo) : st.objs[r].revision \in branch_endpoints}}]
             rev == Head(todo)
             front == FrontParents(st.objs[rev], branch_endpoints, stop1, total_space)
             back == BackParents(st.objs[rev], branch_endpoints, stop1, total_space)
             todo1 == ExtendLeft(Tail(todo), MapSeq(front, st.map_)) \o MapSeq(back, st.map_)
         IN TraverseLoop(st, total_space, branch_endpoints, requested_lowers, inclusive,
                         todo1, stop1,
                         IF Yields(rev, requested_lowers, inclusive)
                         THEN Append(out, rev) ELSE out)

\* The exception, were its arguments given in the other order.
RangeNotAncestorErrorSwapped(lower, upper) == <<upper, lower>>

\* RangeNotAncestorError(lower, upper): what the exception carries.
RangeNotAncestorError(lower, upper) == <<lower, upper>>

\* The stop set as the loop starts (lines 526-528): Revision objects only.
StopSet(st, lowers, requested_lowers, implicit_base) ==
    [revs |-> lowers \cup
                IF implicit_base
                THEN _get_ancestor_nodes(st.objs, st.map_, Range(requested_lowers), FALSE).nodes
                ELSE {},
     ids |-> {}]

\* Lines 514-553: the check of total_space, then the loop from the uppers
\* that lie in it.
Traverse(st, upper, lower, inclusive, requested_lowers, uppers, stop, total_space) ==
    IF total_space = {}
    THEN [err |-> "RangeNotAncestorError", revs |-> <<>>,
          args |-> RangeNotAncestorError(lower, upper)]
    ELSE [err |-> "none",
          revs |-> TraverseLoop(st, total_space, BranchEndpoints(st, total_space),
                                requested_lowers, inclusive,
                                SelectSeq(uppers, LAMBDA r : st.objs[r].revision \in total_space),
                                stop, <<>>)]

\* _iterate_revisions(upper, lower, inclusive, implicit_base), as the list
\* of the objects it yields.
_iterate_revisions(st, upper, lower, inclusive, implicit_base) ==
    LET Fail(e) == [err |-> e, revs |-> <<>>]
        WithDescendants(requested_lowers, uppers, upper_ancestors, lowers, ds) ==
            IF ds.err # "none" THEN Fail(ds.err)
            ELSE Traverse(st, upper, lower, inclusive, requested_lowers, uppers,
                          StopSet(st, lowers, requested_lowers, implicit_base),
                          IdsOf(st.objs, upper_ancestors) \cap IdsOf(st.objs, ds.nodes))
        WithLowers(requested_lowers, uppers, upper_ancestors, lo) ==
            IF lo.err # "none" THEN Fail(lo.err)
            ELSE WithDescendants(requested_lowers, uppers, upper_ancestors, lo.revs,
                                 _get_descendant_nodes(st.objs, st.map_, lo.revs, TRUE))
        WithAncestors(requested_lowers, uppers, ua) ==
            IF ua.err # "none" THEN Fail(ua.err)
            ELSE WithLowers(requested_lowers, uppers, ua.nodes,
                            Lowers(st, ua.nodes, requested_lowers, implicit_base))
        WithUppers(requested_lowers, up) ==
            IF up.err # "none" THEN Fail(up.err)
            ELSE WithAncestors(requested_lowers, up.revs,
                               _get_ancestor_nodes(st.objs, st.map_, Range(up.revs), TRUE))
        WithRequested(rl) ==
            IF rl.err # "none" THEN Fail(rl.err)
            ELSE WithUppers(rl.revs, get_revisions(st, upper))
    IN WithRequested(get_revisions(st, lower))

(***************************************************************************)
(* RevisionMap.iterate_revisions: relative identifiers                     *)
(***************************************************************************)
DigitChars == <<"0", "1", "2", "3", "4", "5", "6", "7", "8", "9">>

IsDigit(c) == c \in Range(DigitChars)

DigitVal(c) == (CHOOSE i \in DOMAIN DigitChars : DigitChars[i] = c) - 1

RECURSIVE DigitsEnd(_, _)
\* \d+ from position i: the position of its last digit.
DigitsEnd(s, i) ==
    IF i < Len(s) /\ IsDigit(SubSeq(s, i + 1, i + 1)) THEN DigitsEnd(s, i + 1) ELSE i

RECURSIVE DigitsValue(_, _, _)
DigitsValue(s, i, j) ==
    IF j < i THEN 0
    ELSE 10 * DigitsValue(s, i, j - 1) + DigitVal(SubSeq(s, j, j))

\* _relative_destination.match(s) for a string without "@": a sign, then
\* digits, at the start of the string.
RelativeMatch(s) ==
    /\ Len(s) >= 2
    /\ SubSeq(s, 1, 1) \in {"+", "-"}
    /\ IsDigit(SubSeq(s, 2, 2))

\* int(match.group(2))
RelativeInt(s) ==
    LET n == DigitsValue(s, 2, DigitsEnd(s, 2))
    IN IF SubSeq(s, 1, 1) = "-" THEN -n ELSE n

\* Python's index clamping in a slice of a list of length n.
SliceIndex(i, n) == IF i < 0 THEN Max(i + n, 0) ELSE Min(i, n)

\* revs[start:]
SliceFrom(revs, start) == SubSeq(revs, SliceIndex(start, Len(revs)) + 1, Len(revs))

\* revs[0:stop]
SliceTo(revs, stop) == SubSeq(revs, 1, SliceIndex(stop, Len(revs)))

\* The slice for a relative upper, were it taken from the head end.
RelativeUpperSliceFromHead(revs, relative, reldelta) == SliceTo(revs, relative + reldelta)

\* The slice taken for a relative upper: revs[-relative - reldelta:]
RelativeUpperSlice(revs, relative, reldelta) == SliceFrom(revs, -relative - reldelta)

\* The slice taken for a relative lower: revs[0:-relative + reldelta]
RelativeLowerSlice(revs, relative, reldelta) == SliceTo(revs, -relative + reldelta)

\* The slice when it has the length asked for, RevisionError otherwise
\* (lines 393-397 and 415-419).
RelativeRevs(revs, relative, reldelta) ==
    IF Len(revs) # Abs(relative) + reldelta
    THEN [err |-> "RevisionError", revs |-> <<>>]
    ELSE [err |-> "none", revs |-> revs]

\* iterate_revisions(upper, lower, implicit_base, inclusive)
iterate_revisions(st, upper, lower, implicit_base, inclusive) ==
    LET reldelta == IF inclusive THEN 1 ELSE 0
        FromHead(all) ==
            IF all.err # "none" THEN all
            ELSE RelativeRevs(RelativeUpperSlice(all.revs, RelativeInt(upper), reldelta),
                              RelativeInt(upper), reldelta)
        ToBase(all) ==
            IF all.err # "none" THEN all
            ELSE RelativeRevs(RelativeLowerSlice(all.revs, RelativeInt(lower), reldelta),
                              RelativeInt(lower), reldelta)
    IN IF RelativeMatch(upper)
       THEN FromHead(_iterate_revisions(st, "head", lower, inclusive, implicit_base))
       ELSE IF RelativeMatch(lower)
       THEN ToBase(_iterate_revisions(st, upper, "base", inclusive, implicit_base))
       ELSE _iterate_revisions(st, upper, lower, inclusive, implicit_base)

(***************************************************************************)
(* The inputs: revision ids are ranked, and a revision names only parents  *)
(* of a lower rank, so that every map is acyclic.                          *)
(***************************************************************************)
IdOrder == <<"a", "b", "c", "d", "e", "f", "g">>

\* The down_revision arguments of the revision of rank i among `names`: no
\* parent, one, or two in either order.
DownTuples(names, i) ==
    {<<>>} \cup {<<names[j]>> : j \in 1..(i - 1)}
    \cup ({<<names[j], names[k]>> : j, k \in 1..(i - 1)} \ {<<x, x>> : x \in Range(names)})

RevArgs(id, d, l) == [revision |-> id, down_revision |-> d, branch_labels |-> l]

\* Unlabelled revisions over the first n ids.
PlainRevs(n) == UNION {{RevArgs(IdOrder[i], d, <<>>) : d \in DownTuples(IdOrder, i)} : i \in 1..n}

RECURSIVE DagsOfSize(_, _, _)
\* The generator outputs that are well-formed DAGs of k revisions: the
\* revision of rank i comes i-th, with one of the label tuples of `ls`.
DagsOfSize(names, ls, k) ==
    IF k = 0 THEN {<<>>}
    ELSE {Append(g, RevArgs(names[k], d, l)) :
            g \in DagsOfSize(names, ls, k - 1), d \in DownTuples(names, k), l \in ls}

Dags(names, ls, n) == UNION {DagsOfSize(names, ls, k) : k \in 0..n}

\* The linear chain of k revisions, each the child of the one before.
Chain(k) ==
    [i \in 1..k |-> RevArgs(IdOrder[i], IF i = 1 THEN <<>> ELSE <<IdOrder[i - 1]>>, <<>>)]

Perms(k) == {f \in [1..k -> 1..k] : \A i, j \in 1..k : f[i] = f[j] => i = j}

\* The chains of at most n revisions, yielded by the generator in any order.
Chains(n) == UNION {{[i \in 1..k |-> Chain(k)[f[i]]] : f \in Perms(k)} : k \in 1..n}

SeqsUpTo(S, n) == UNION {[1..k -> S] : k \in 0..n}

(***************************************************************************)
(* The state as a record, for the operators above.                         *)
(***************************************************************************)
Self ==
    [built |-> built, objs |-> objs, map_ |-> map_, heads |-> heads,
     bases |-> bases, err |-> "none", warned |-> {}]

\* self._revision_map: the memoized map, or the build on the first access.
Cur == IF built THEN {Self} ELSE BuildOutcomes(generator)

SetState(s) ==
    /\ built' = s.built
    /\ objs' = s.objs
    /\ map_' = s.map_
    /\ heads' = s.heads
    /\ bases' = s.bases
    /\ err' = s.err
    /\ warned' = s.warned

NoRev == [revision |-> "-", down_revision |-> <<>>, branch_labels |-> <<>>]

Call0 ==
    [name |-> "-", rev |-> NoRev, replace |-> FALSE, id |-> "-", upper |-> "-",
     lower |-> "-", implicit_base |-> FALSE, inclusive |-> FALSE]

InitWith(gens) ==
    /\ generator \in gens
    /\ built = FALSE
    /\ objs = <<>>
    /\ map_ = <<>>
    /\ heads = <<>>
    /\ bases = <<>>
    /\ call = Call0
    /\ err = "none"
    /\ err_args = <<>>
    /\ warned = {}
    /\ result = <<>>

(***************************************************************************)
(* The operations.                                                         *)
(***************************************************************************)
\* No operation is in progress.
Idle == call = Call0

\* The caller takes what the operation returned or raised; an operation is
\* called only when no other is in progress (the class is single-threaded).
Return ==
    /\ ~Idle
    /\ call' = Call0
    /\ err' = "none"
    /\ err_args' = <<>>
    /\ warned' = {}
    /\ result' = <<>>
    /\ UNCHANGED <<generator, built, objs, map_, heads, bases>>

\* The first access of _revision_map, heads or bases.
Build ==
    /\ Idle
    /\ ~built
    /\ \E s \in BuildOutcomes(generator) : SetState(s)
    /\ call' = [Call0 EXCEPT !.name = "_revision_map"]
    /\ err_args' = <<>>
    /\ result' = <<>>
    /\ UNCHANGED generator

AddRevision(g, _replace) ==
    /\ Idle
    /\ Len(objs) < Len(generator) + MaxAdds
    /\ \E s \in Cur :
          IF s.built THEN SetState(add_revision(s, g, _replace)) ELSE SetState(s)
    /\ call' = [Call0 EXCEPT !.name = "add_revision", !.rev = g, !.replace = _replace]
    /\ err_args' = <<>>
    /\ result' = <<>>
    /\ UNCHANGED generator

GetRevision(id_) ==
    /\ Idle
    /\ \E s \in Cur :
          IF s.built
          THEN LET r == get_revision(s, id_)
               IN /\ SetState([s EXCEPT !.err = r.err, !.warned = {}])
                  /\ result' = IF r.err = "none" THEN <<r.rev>> ELSE <<>>
          ELSE SetState(s) /\ result' = <<>>
    /\ call' = [Call0 EXCEPT !.name = "get_revision", !.id = id_]
    /\ err_args' = <<>>
    /\ UNCHANGED generator

IterateRevisions(upper, lower, implicit_base, inclusive) ==
    /\ Idle
    /\ \E s \in Cur :
          IF s.built
          THEN LET r == iterate_revisions(s, upper, lower, implicit_base, inclusive)
               IN /\ SetState([s EXCEPT !.err = r.err, !.warned = {}])
                  /\ result' = r.revs
                  /\ err_args' = IF r.err = "RangeNotAncestorError" THEN r.args ELSE <<>>
          ELSE SetState(s) /\ result' = <<>> /\ err_args' = <<>>
    /\ call' = [Call0 EXCEPT !.name = "iterate_revisions", !.upper = upper,
                             !.lower = lower, !.implicit_base = implicit_base,
                             !.inclusive = inclusive]
    /\ UNCHANGED generator

(***************************************************************************)
(* The lifecycle model: any generator output, duplicates and dangling      *)
(* parents included, then insertions.                                      *)
(***************************************************************************)
Init == InitWith(SeqsUpTo(PlainRevs(MaxGen), MaxGen))

Next ==
    \/ Build
    \/ Return
    \/ \E g \in PlainRevs(MaxGen), r \in BOOLEAN : AddRevision(g, r)

Spec == Init /\ [][Next]_vars

(***************************************************************************)
(* The traversal model: well-formed DAGs, ranges between any two           *)
(* identifiers.                                                            *)
(***************************************************************************)
Ids(n) == {IdOrder[i] : i \in 1..n}

InitIter == InitWith(Dags(IdOrder, {<<>>}, MaxNodes))

NextIter ==
    \/ Build
    \/ Return
    \/ \E upper \in Ids(MaxNodes) \cup {"head", "heads", "base"},
          lower \in Ids(MaxNodes) \cup {"base"},
          implicit_base \in BOOLEAN, inclusive \in BOOLEAN :
            IterateRevisions(upper, lower, implicit_base, inclusive)

SpecIter == InitIter /\ [][NextIter]_vars

(***************************************************************************)
(* The chain model: linear chains, relative identifiers.                   *)
(***************************************************************************)
RECURSIVE IntStr(_)
IntStr(n) == IF n < 10 THEN DigitChars[n + 1] ELSE IntStr(n \div 10) \o DigitChars[(n % 10) + 1]

Relatives(sign, n) == {sign \o IntStr(k) : k \in 0..n}

InitChain == InitWith(Chains(MaxChain))

NextChain ==
    \/ Build
    \/ Return
    \/ \E upper \in {"head", "+10", "-1"} \cup Relatives("+", MaxChain + 1),
          lower \in {"base", "b", "-1"},
          implicit_base \in BOOLEAN, inclusive \in BOOLEAN :
            IterateRevisions(upper, lower, implicit_base, inclusive)

SpecChain == InitChain /\ [][NextChain]_vars

(***************************************************************************)
(* The label model: well-formed DAGs whose revisions carry branch labels.  *)
(***************************************************************************)
BranchLabels == {"x", "y"}

LabelTuples(ls) == {<<>>} \cup {<<l>> : l \in ls}

InitLabel == InitWith(Dags(IdOrder, LabelTuples(BranchLabels), MaxLabelled))

NextLabel ==
    \/ Build
    \/ Return
    \/ \E id_ \in BranchLabels \cup {"head"} : GetRevision(id_)

SpecLabel == InitLabel /\ [][NextLabel]_vars

(***************************************************************************)
(* The prefix model: revision ids and branch labels that share prefixes.   *)
(***************************************************************************)
KeyedIds == <<"aab", "abb", "bab", "bba", "abab">>

KeyedLabels == {"abx", "x"}

Prefixes == {"a", "aa", "ab", "abx", "b", "ba", "bb", "x", "c", "aab", "aabb"}

InitPrefix == InitWith(Dags(KeyedIds, LabelTuples(KeyedLabels), MaxKeyed))

NextPrefix ==
    \/ Build
    \/ Return
    \/ \E id_ \in Prefixes \cup {"head", "base"} : GetRevision(id_)

SpecPrefix == InitPrefix /\ [][NextPrefix]_vars

(***************************************************************************)
(* The insertion model: a labelled DAG, then one new revision whose        *)
(* parents are all in it.                                                  *)
(***************************************************************************)
NewLabels == BranchLabels \cup {"z"}

\* The revisions that can be added to gen: the next id, parents among the
\* ids of gen, at most one label.
NewRevs(gen) ==
    {RevArgs(IdOrder[Len(gen) + 1], d, l) :
        d \in DownTuples(IdOrder, Len(gen) + 1), l \in LabelTuples(NewLabels)}

\* No revision was added yet.
Fresh == Len(objs) = IF built THEN Len(generator) ELSE 0

InitAdd == InitWith(Dags(IdOrder, LabelTuples(BranchLabels), MaxSeed))

NextAdd ==
    \/ Build
    \/ Return
    \/ \E g \in NewRevs(generator) : Fresh /\ AddRevision(g, FALSE)

SpecAdd == InitAdd /\ [][NextAdd]_vars

(***************************************************************************)
(* What the properties are stated in: the graph the generator describes    *)
(* and the ids a query returned.                                           *)
(***************************************************************************)
GenIds == {generator[i].revision : i \in DOMAIN generator}

GenEntry(id) == CHOOSE g \in Range(generator) : g.revision = id

GenParents(id) == Range(GenEntry(id).down_revision)

\* Distinct ids, every parent among them.
WellFormedGenerator ==
    /\ \A i, j \in DOMAIN generator : generator[i].revision = generator[j].revision => i = j
    /\ \A i \in DOMAIN generator : Range(generator[i].down_revision) \subseteq GenIds

RECURSIVE GenAncestors(_)
\* id and its ancestors, in a well-formed generator.
GenAncestors(id) == {id} \cup UNION {GenAncestors(p) : p \in GenParents(id)}

ResultIds == [i \in DOMAIN result |-> objs[result[i]].revision]

NoDuplicates(s) == \A i, j \in DOMAIN s : s[i] = s[j] => i = j

IsIter == call.name = "iterate_revisions"

(***************************************************************************)
(* Properties of the chain model (SpecChain): the chain of n revisions is  *)
(* IdOrder[1] (the base) to IdOrder[n] (the head).                         *)
(***************************************************************************)
ChainLen == Len(generator)

HeadToBaseCall == IsIter /\ call.upper = "head" /\ call.lower = "base" /\ call.inclusive

\* C7: on a linear chain, iterate_revisions("head", "base", inclusive=True)
\* yields every revision of the chain exactly once, each one immediately
\* followed by its parent, from the head down to the base.
C7_ChainHeadToBase ==
    HeadToBaseCall =>
        /\ err = "none"
        /\ Len(result) = ChainLen
        /\ NoDuplicates(ResultIds)
        /\ Range(ResultIds) = GenIds
        /\ \A i \in DOMAIN result :
              GenParents(ResultIds[i]) = IF i < Len(result) THEN {ResultIds[i + 1]} ELSE {}

C7_Witness == HeadToBaseCall /\ err = "none" /\ Len(result) = 3

RelativeUpperCall(N) ==
    IsIter /\ call.upper = "+" \o IntStr(N) /\ call.lower = "base" /\ ~call.inclusive

RelativeCounts == 0..(MaxChain + 1) \cup {10}

\* C3 as stated: "+N" against "base", not inclusive, yields the N revisions
\* nearest the head when N <= n and raises RevisionError when N > n (N >= 1).
C3_Original ==
    \A N \in RelativeCounts \ {0} :
        RelativeUpperCall(N) =>
            IF N <= ChainLen
            THEN err = "none" /\ ResultIds = [i \in 1..N |-> IdOrder[ChainLen + 1 - i]]
            ELSE err = "RevisionError"

\* C3, amended: "+N" against "base", not inclusive, yields the N revisions
\* nearest the base (the last N of the head-to-base order) when
\* 1 <= N <= n, and raises RevisionError when N > n or N = 0.
C3_RelativeNearestBase ==
    \A N \in RelativeCounts :
        RelativeUpperCall(N) =>
            IF 1 <= N /\ N <= ChainLen
            THEN err = "none" /\ ResultIds = [i \in 1..N |-> IdOrder[N + 1 - i]]
            ELSE err = "RevisionError" /\ result = <<>>

C3_Witness == RelativeUpperCall(2) /\ ChainLen = 5 /\ err = "none" /\ Len(result) = 2

(***************************************************************************)
(* Properties of the traversal model (SpecIter).                           *)
(***************************************************************************)
MergeCall ==
    /\ IsIter /\ call.upper \in GenIds /\ call.lower = "base" /\ call.inclusive
    /\ Len(GenEntry(call.upper).down_revision) > 1

\* C2 as stated: from a merge node M down to base, inclusive, the parents
\* of M and all their ancestors are yielded before M, and M is yielded
\* exactly once, as the last element.
C2_Original ==
    MergeCall =>
        /\ err = "none"
        /\ GenAncestors(call.upper) \subseteq Range(ResultIds)
        /\ Cardinality({i \in DOMAIN result : ResultIds[i] = call.upper}) = 1
        /\ ResultIds[Len(result)] = call.upper

\* C2, amended: from a merge node M down to base, inclusive, M is yielded
\* exactly once, as the first element, and the parents of M and all their
\* ancestors are yielded after it, each exactly once.
C2_MergeFirst ==
    MergeCall =>
        /\ err = "none"
        /\ Range(ResultIds) = GenAncestors(call.upper)
        /\ NoDuplicates(ResultIds)
        /\ ResultIds[1] = call.upper

C2_Witness ==
    /\ MergeCall /\ err = "none" /\ Len(result) = 4
    /\ \E x \in GenIds : Cardinality({y \in GenIds : x \in GenParents(y)}) > 1

NotAncestorCall ==
    /\ IsIter /\ call.upper \in GenIds /\ call.lower \in GenIds
    /\ call.lower \notin GenAncestors(call.upper)

RaisedNotAncestor ==
    /\ err = "RangeNotAncestorError"
    /\ err_args = <<call.lower, call.upper>>
    /\ result = <<>>

IsBarrier(x) == Cardinality({y \in Range(ResultIds) : x \in GenParents(y)}) > 1

\* C9 as stated: every fork barrier of the range is yielded exactly once,
\* and only after every node of the range that descends from it.
C9_Original ==
    (IsIter /\ err = "none") =>
        \A i \in DOMAIN result :
            IsBarrier(ResultIds[i]) =>
                \A j \in DOMAIN result \ {i} :
                    /\ ResultIds[j] # ResultIds[i]
                    /\ ResultIds[i] \in GenAncestors(ResultIds[j]) => j < i

(***************************************************************************)
(* Properties of the lifecycle model (Spec).                               *)
(***************************************************************************)
\* The objects the map holds under their own id.
Nodes == {a \in Mapped(map_) : map_[objs[a].revision] = a}

\* C1 as stated: after the build and any add_revision calls, the nextrev of
\* every node is exactly the set of ids of the nodes whose down_revision
\* names it (stated here for the calls that neither raise nor warn).
C1_Original ==
    (built /\ WellFormedGenerator /\ err = "none" /\ warned = {}) =>
        \A a \in Nodes :
            objs[a].nextrev =
                {objs[b].revision : b \in
                    {b \in Nodes : objs[a].revision \in Range(_down_revision_tuple(objs[b]))}}

\* C6 as stated: after the build and any add_revision calls, heads holds
\* exactly the ids of the nodes without children and bases exactly the ids
\* of the nodes without parents, each once (stated here for the calls that
\* neither raise nor warn).
C6_Original ==
    (built /\ WellFormedGenerator /\ err = "none" /\ warned = {}) =>
        /\ NoDuplicates(heads)
        /\ Range(heads) = {objs[a].revision : a \in {a \in Nodes : objs[a].nextrev = {}}}
        /\ NoDuplicates(bases)
        /\ Range(bases) =
              {objs[a].revision : a \in {a \in Nodes : _down_revision_tuple(objs[a]) = <<>>}}

\* add_revision was called, on the built map, with a parent that is no key.
DanglingAdd ==
    /\ call.name = "add_revision" /\ built
    /\ call.rev.revision \in DOMAIN map_
    /\ \E d \in Range(call.rev.down_revision) : d \notin DOMAIN map_

\* The build ran on a generator that names a parent it does not yield.
DanglingBuild ==
    /\ call.name = "_revision_map"
    /\ \E i \in DOMAIN generator : ~(Range(generator[i].down_revision) \subseteq GenIds)

\* C10 as stated: a parent id that is absent from the map makes the build,
\* or add_revision, warn and complete without raising.
C10_Original ==
    (DanglingAdd \/ DanglingBuild) => (err = "none" /\ "is not present" \in warned)

(***************************************************************************)
(* Properties of the label model (SpecLabel).                              *)
(***************************************************************************)
GenChildren(id) == {y \in GenIds : id \in GenParents(y)}

GenDescendants(id) == {y \in GenIds : id \in GenAncestors(y)}

LabelsOf(id) == objs[map_[id]].branch_labels

IsForkOrMerge(id) ==
    Cardinality(GenChildren(id)) > 1 \/ Cardinality(GenParents(id)) > 1

\* The nodes from A up to B, both included.
Between(A, B) == {n \in GenAncestors(B) : A \in GenAncestors(n)}

\* C5: after the build, a label L given to B at construction is in the
\* label set of B and of every descendant of B, and it is in the label set
\* of an ancestor A of B only if no branch point and no merge point lies
\* between A and B (A and B included).
C5_LabelPropagation ==
    built =>
        \A B \in GenIds : \A L \in Range(GenEntry(B).branch_labels) :
            /\ \A D \in GenDescendants(B) : L \in LabelsOf(D)
            /\ \A A \in GenAncestors(B) \ {B} :
                  L \in LabelsOf(A) => \A n \in Between(A, B) : ~IsForkOrMerge(n)

C5_Witness ==
    /\ built
    /\ \E B \in GenIds : \E L \in Range(GenEntry(B).branch_labels) :
          /\ \E A \in GenAncestors(B) \ {B} : L \in LabelsOf(A)
          /\ \E A \in GenAncestors(B) \ {B} : L \notin LabelsOf(A)

(***************************************************************************)
(* Properties of the prefix model (SpecPrefix).                            *)
(***************************************************************************)
\* get_revision(p) was called with a string that is no key of the map and
\* no symbolic name.
PrefixCall ==
    /\ call.name = "get_revision" /\ built
    /\ call.id \notin DOMAIN map_
    /\ call.id \notin {"head", "heads", "base"}

RevisionIdKeys == {k \in DOMAIN map_ \ Sentinels : objs[map_[k]].revision = k}

AllKeys == DOMAIN map_ \ Sentinels

\* The lookup over the candidate keys ks: the revision under the only key
\* that starts with p, ResolutionError for none or several.
ResolvesAmong(ks) ==
    LET m == {k \in ks : StartsWith(k, call.id)}
    IN IF Cardinality(m) = 1
       THEN err = "none" /\ result = <<map_[CHOOSE k \in m : TRUE]>>
       ELSE err = "ResolutionError" /\ result = <<>>

\* C8 as stated: p resolves to the revision whose id is the only revision
\* id that starts with p, and raises ResolutionError when no revision id or
\* several revision ids start with p.
C8_Original == PrefixCall => ResolvesAmong(RevisionIdKeys)

(***************************************************************************)
(* The lower boundary of a range, in the traversal model (SpecIter).       *)
(***************************************************************************)
\* iterate_revisions returned a sequence.
Iterated == IsIter /\ err = "none"

\* The revisions the lower names: none for "base".
RequestedLowers == IF call.lower \in GenIds THEN {call.lower} ELSE {}

\* The revisions the upper names: its id, or the heads for "head", "heads".
RequestedUppers ==
    IF call.upper \in GenIds THEN {call.upper}
    ELSE {id \in GenIds : GenChildren(id) = {}}

UpperAncestors == UNION {GenAncestors(u) : u \in RequestedUppers}

GenBases == {id \in GenIds : GenParents(id) = {}}

\* The DAG bases that bound the range: all those below the uppers when the
\* lower is "base"; with implicit_base, those that are no ancestor of the
\* lower.
BoundingBases ==
    IF RequestedLowers = {} THEN GenBases \cap UpperAncestors
    ELSE IF call.implicit_base
    THEN (GenBases \cap UpperAncestors) \ GenAncestors(call.lower)
    ELSE {}

LowerBoundary == RequestedLowers \cup BoundingBases

\* C12 as stated: when inclusive is False no node of the lower boundary
\* (the requested lowers, or the DAG bases for "base" and for implicit_base)
\* is yielded; when inclusive is True every lower-boundary node that lies
\* in the range is yielded.
C12_Original ==
    Iterated =>
        IF call.inclusive
        THEN (LowerBoundary \cap UpperAncestors) \subseteq Range(ResultIds)
        ELSE LowerBoundary \cap Range(ResultIds) = {}

\* C12, amended: when inclusive is False no requested lower is yielded;
\* when inclusive is True every requested lower that lies in the range is
\* yielded; the DAG bases that bound the range (for "base", and those
\* added by implicit_base) are yielded whatever inclusive is.
C12_LowerBoundary ==
    Iterated =>
        /\ ~call.inclusive => RequestedLowers \cap Range(ResultIds) = {}
        /\ call.inclusive => (RequestedLowers \cap UpperAncestors) \subseteq Range(ResultIds)
        /\ BoundingBases \subseteq Range(ResultIds)

C12_Witness ==
    /\ Iterated /\ ~call.inclusive /\ call.implicit_base
    /\ RequestedLowers \cap UpperAncestors # {}
    /\ BoundingBases # {}
    /\ Len(result) > 1

(***************************************************************************)
(* Properties of the insertion model (SpecAdd).                            *)
(***************************************************************************)
\* What C11 compares of a map: the revision each key stands for, and per
\* revision id its children and its branch labels; heads and bases as sets.
MapView(st) ==
    LET ids == {k \in DOMAIN st.map_ \ Sentinels : st.objs[st.map_[k]].revision = k}
    IN [keys |-> [k \in DOMAIN st.map_ |->
                     IF st.map_[k] = 0 THEN NoneKey ELSE st.objs[st.map_[k]].revision],
        nextrev |-> [id \in ids |-> st.objs[st.map_[id]].nextrev],
        branch_labels |-> [id \in ids |-> st.objs[st.map_[id]].branch_labels],
        heads |-> Range(st.heads),
        bases |-> Range(st.bases)]

\* The maps the build gives in one pass over the generator followed by n.
OnePass(n) == {MapView(o) : o \in {o \in BuildOutcomes(Append(generator, n)) : o.built}}

\* add_revision(n) returned on the map built from the generator.
AddedOne ==
    /\ call.name = "add_revision" /\ built /\ err = "none"
    /\ Len(objs) = Len(generator) + 1

\* C11 as stated: the map built from S and then given n by add_revision has
\* the children sets, heads, bases, alias keys and branch-label sets of a
\* map built in one pass from S plus n.
C11_Original == AddedOne => MapView(Self) \in OnePass(call.rev)

====
